---- MODULE Spec2Model ----
(***************************************************************************)
(* Query-strategy decision and hybrid-retrieval pipeline of the VC startup *)
(* search workflows.                                                       *)
(*                                                                         *)
(*   branching workflow (src/main.ts):                                     *)
(*     decideStrategy -> prepareStrictParams | prepareFlexibleParams       *)
(*                    -> executeSearch -> visualizeResults                 *)
(*   linear workflow (src/unnamed/part_001):                               *)
(*     queryProcessor -> searchProcessor -> resultFormatter                *)
(*                                                                         *)
(* The language model and the search store are external: every call to     *)
(* them either fails or answers with a value drawn from a small set.       *)
(* JavaScript objects are functions from key strings to values; a key that *)
(* was never written is absent from the domain.                            *)
(***************************************************************************)
EXTENDS Integers, Sequences, FiniteSets, TLC

(***************************************************************************)
(* Bounds of the model.                                                    *)
(***************************************************************************)
\* number of documents in the index
NumDocs == 6

(***************************************************************************)
(* Program constants.                                                      *)
(***************************************************************************)
\* z.number().default(0) / `|| 0`
UNCONSTRAINED_MIN == 0
\* z.number().default(100000000) / `|| 100000000`
UNCONSTRAINED_MAX == 100000000
\* "size": 5 of the template and of the dynamic query
TOP_K == 5
\* minimum_should_match: 2
MINIMUM_SHOULD_MATCH == 2
\* "rank_constant": 20
RANK_CONSTANT == 20
\* "rank_window_size": 100
RANK_WINDOW_SIZE == 100
\* the store's page size when a search names no size (searchProcessor)
DEFAULT_SIZE == 10

STRICT_SEARCH_TEMPLATE_ID == "startup-strict-search-template"

(***************************************************************************)
(* JavaScript values.                                                      *)
(***************************************************************************)
\* the object literal {}
EmptyObject == [k \in {} |-> TRUE]

Has(obj, key) == key \in DOMAIN obj

\* JavaScript truthiness of a number
TruthyNum(n) == n # 0

\* a || b on numbers
OrNum(a, b) == IF TruthyNum(a) THEN a ELSE b

\* the state channels written so far, overwritten by a node's update
Merge(update, st) == update @@ st

CategoricalFields == <<"industry", "location", "funding_stage", "lead_investor">>

(***************************************************************************)
(* The corpus held by the store.                                           *)
(***************************************************************************)
DocIds == 1..NumDocs

Doc(i) ==
  [ company_name   |-> i,
    industry       |-> IF i % 2 = 1 THEN "fintech" ELSE "health",
    location       |-> IF i % 3 = 0 THEN "NY" ELSE "SF",
    funding_stage  |-> IF i <= 4 THEN "SeriesA" ELSE "Seed",
    funding_amount |-> i * 4000000,
    lead_investor  |-> IF i % 3 = 1 THEN "a16z" ELSE "sequoia" ]

\* the value catalog: the distinct values of a categorical field in the corpus
Catalog(field) == { Doc(i)[field] : i \in DocIds }

(***************************************************************************)
(* Query clauses.                                                          *)
(***************************************************************************)
TermsClause(field, values) == [type |-> "terms", field |-> field, values |-> values]

\* a range object holding only the bounds that are given
RangeBounds(hasGte, gte, hasLte, lte) ==
  [k \in (IF hasGte THEN {"gte"} ELSE {}) \cup (IF hasLte THEN {"lte"} ELSE {})
     |-> IF k = "gte" THEN gte ELSE lte]

RangeClause(bounds) == [type |-> "range", field |-> "funding_amount", bounds |-> bounds]

\* the separator the template writes after a clause
Comma == [type |-> ","]

IsClause(tok) == tok.type \in {"terms", "range"}

\* does the document satisfy the clause
Matches(doc, clause) ==
  IF clause.type = "terms"
    THEN doc[clause.field] \in clause.values
    ELSE /\ Has(clause.bounds, "gte") => doc[clause.field] >= clause.bounds.gte
         /\ Has(clause.bounds, "lte") => doc[clause.field] <= clause.bounds.lte

MatchesAll(doc, clauses) ==
  \A i \in 1..Len(clauses) : Matches(doc, clauses[i])

(***************************************************************************)
(* The strict search template (mustache) registered by                     *)
(* createSearchTemplates, and its rendering by the store.                  *)
(***************************************************************************)
RECURSIVE Repeat(_, _)
Repeat(body, n) == IF n = 0 THEN <<>> ELSE body \o Repeat(body, n - 1)

\* as ListSection, but an empty list renders the body once
ListSectionRendersEmpty(params, key, body) ==
  IF Has(params, key)
    THEN Repeat(body, IF params[key] = {} THEN 1 ELSE Cardinality(params[key]))
    ELSE <<>>

\* {{#key}}body{{/key}} on a list: the body once per element, none when empty
ListSection(params, key, body) ==
  IF Has(params, key) THEN Repeat(body, Cardinality(params[key])) ELSE <<>>

\* {{#key}}...{{/key}} on a number: whether the section is rendered. The
\* template engine decides how it treats the number 0; zeroTruthy is its choice.
NumSectionOn(params, key, zeroTruthy) ==
  Has(params, key) /\ (zeroTruthy \/ TruthyNum(params[key]))

IndustrySection(params) ==
  ListSection(params, "industry",
              <<TermsClause("industry", params.industry), Comma>>)

LocationSection(params) ==
  ListSection(params, "location",
              <<TermsClause("location", params.location), Comma>>)

FundingStageSection(params) ==
  ListSection(params, "funding_stage",
              <<TermsClause("funding_stage", params.funding_stage), Comma>>)

\* "gte" always, "lte" inside its own nested section, then a comma
FundingAmountSection(params, zeroTruthy) ==
  IF NumSectionOn(params, "funding_amount_gte", zeroTruthy)
    THEN <<RangeClause(RangeBounds(
               TRUE, params.funding_amount_gte,
               NumSectionOn(params, "funding_amount_lte", zeroTruthy),
               IF Has(params, "funding_amount_lte")
                 THEN params.funding_amount_lte ELSE 0)),
           Comma>>
    ELSE <<>>

\* the last section writes no comma after its clause
LeadInvestorSection(params) ==
  ListSection(params, "lead_investor",
              <<TermsClause("lead_investor", params.lead_investor)>>)

\* the text between "filter": [ and ] as a token sequence
RenderFilterArray(params, zeroTruthy) ==
  IndustrySection(params) \o LocationSection(params)
    \o FundingStageSection(params) \o FundingAmountSection(params, zeroTruthy)
    \o LeadInvestorSection(params)

\* as RenderTemplate, but without "rank_constant": the store's own default
RenderTemplateDefaultRankConstant(params, zeroTruthy) ==
  [ size      |-> TOP_K,
    retriever |-> [rrf |->
      [ retrievers |->
          << [standard |-> [query |-> [semantic |->
                [field |-> "semantic_field", query |-> params.query_text]]]],
             [standard |-> [query |-> [bool |->
                [filter |-> RenderFilterArray(params, zeroTruthy)]]]] >>,
        rank_window_size |-> RANK_WINDOW_SIZE,
        rank_constant    |-> 60 ]] ]

\* the rendered template: rrf over a semantic retriever and a filter retriever
RenderTemplate(params, zeroTruthy) ==
  [ size      |-> TOP_K,
    retriever |-> [rrf |->
      [ retrievers |->
          << [standard |-> [query |-> [semantic |->
                [field |-> "semantic_field", query |-> params.query_text]]]],
             [standard |-> [query |-> [bool |->
                [filter |-> RenderFilterArray(params, zeroTruthy)]]]] >>,
        rank_window_size |-> RANK_WINDOW_SIZE,
        rank_constant    |-> RANK_CONSTANT ]] ]

\* the filter array of the second retriever of a rendered template
FilterTokens(rendered) ==
  rendered.retriever.rrf.retrievers[2].standard.query.bool.filter

\* a JSON array: clauses separated by single commas, no comma after the last
WellFormedArray(tokens) ==
  \/ Len(tokens) = 0
  \/ /\ Len(tokens) % 2 = 1
     /\ \A i \in 1..Len(tokens) :
          IF i % 2 = 1 THEN IsClause(tokens[i]) ELSE tokens[i] = Comma

\* the clauses of a token sequence
ClausesOf(tokens) == SelectSeq(tokens, IsClause)

(***************************************************************************)
(* The store's search.  Ranked lists are sequences of document ids.        *)
(***************************************************************************)
Min(a, b) == IF a < b THEN a ELSE b

\* the first n entries of a list
Window(list, n) == SubSeq(list, 1, Min(Len(list), n))

Members(list) == { list[i] : i \in 1..Len(list) }

\* 1-based position of a document in a list that holds it
RankIn(list, d) == CHOOSE i \in 1..Len(list) : list[i] = d

IndexOrder == [i \in 1..NumDocs |-> i]

\* the orders in which the semantic retriever may rank the corpus
SemanticRankings == { IndexOrder, [i \in 1..NumDocs |-> NumDocs + 1 - i] }

\* the documents passing every clause, in index order
FilterList(clauses) ==
  LET Pass(i) == MatchesAll(Doc(i), clauses)
  IN  SelectSeq(IndexOrder, Pass)

\* reciprocal rank fusion: a list holding d at rank r contributes
\* 1 / (rank_constant + r); scores are fractions <<numerator, denominator>>
Contribution(list, d, k) ==
  IF d \in Members(list) THEN <<1, k + RankIn(list, d)>> ELSE <<0, 1>>

FracAdd(a, b) == <<a[1] * b[2] + b[1] * a[2], a[2] * b[2]>>

FracGT(a, b) == a[1] * b[2] > b[1] * a[2]

RrfScore(l1, l2, d, k) == FracAdd(Contribution(l1, d, k), Contribution(l2, d, k))

\* d is ordered before e: higher fused score, ties by index order
RrfBefore(l1, l2, d, e, k) ==
  \/ FracGT(RrfScore(l1, l2, d, k), RrfScore(l1, l2, e, k))
  \/ /\ ~FracGT(RrfScore(l1, l2, e, k), RrfScore(l1, l2, d, k))
     /\ d < e

RECURSIVE RrfSort(_, _, _, _)
RrfSort(l1, l2, S, k) ==
  IF S = {} THEN <<>>
  ELSE LET best == CHOOSE d \in S : \A e \in S \ {d} : RrfBefore(l1, l2, d, e, k)
       IN  <<best>> \o RrfSort(l1, l2, S \ {best}, k)

\* documents of either list, fused
RrfFuse(l1, l2, k) == RrfSort(l1, l2, Members(l1) \cup Members(l2), k)

\* the rrf retriever of the rendered template
RrfSearch(rendered, ranking) ==
  LET rrf == rendered.retriever.rrf
      l1 == Window(ranking, rrf.rank_window_size)
      l2 == Window(FilterList(ClausesOf(FilterTokens(rendered))), rrf.rank_window_size)
  IN  Window(RrfFuse(l1, l2, rrf.rank_constant), rendered.size)

\* number of should clauses the document satisfies
ShouldCount(doc, should) ==
  Cardinality({ i \in 1..Len(should) : Matches(doc, should[i]) })

\* bool query: must semantic, should clauses, minimum_should_match: a
\* document needs that many should clauses; more matched clauses score higher
RECURSIVE BoolSort(_, _, _)
BoolSort(should, ranking, S) ==
  IF S = {} THEN <<>>
  ELSE LET Before(d, e) ==
             \/ ShouldCount(Doc(d), should) > ShouldCount(Doc(e), should)
             \/ /\ ShouldCount(Doc(d), should) = ShouldCount(Doc(e), should)
                /\ RankIn(ranking, d) < RankIn(ranking, e)
           best == CHOOSE d \in S : \A e \in S \ {d} : Before(d, e)
       IN  <<best>> \o BoolSort(should, ranking, S \ {best})

BoolSearch(dynamicQuery, ranking) ==
  LET b == dynamicQuery.query.bool
      qualifying == { d \in Members(ranking) :
                        ShouldCount(Doc(d), b.should) >= b.minimum_should_match }
  IN  Window(BoolSort(b.should, ranking, qualifying), dynamicQuery.size)

\* the semantic query alone, at the page size of the pipeline
SemanticSearch(ranking) == Window(ranking, TOP_K)

\* hits.hits.map(hit => hit._source)
Sources(hits) == [i \in 1..Len(hits) |-> Doc(hits[i])]

\* esClient.search({ index, query }) of the linear workflow: no size is given,
\* a missing query matches every document
DirectSearch(parsedQuery) ==
  LET clauses == IF Has(parsedQuery, "elasticsearch_query")
                   THEN parsedQuery.elasticsearch_query.bool.filter
                   ELSE <<>>
  IN  Window(FilterList(clauses), DEFAULT_SIZE)

(***************************************************************************)
(* Answers of the language model.                                          *)
(***************************************************************************)
Inputs == {"find exactly", "find similar"}

\* values the extractor may name; "crypto" is in no document of the corpus
IndustryMentions == {"fintech", "crypto"}
LocationMentions == {"SF"}
FundingStageMentions == {"SeriesA"}
LeadInvestorMentions == {"a16z", "sequoia"}
GteMentions == {UNCONSTRAINED_MIN, 5000000, 20000000}
LteMentions == {0, 15000000, UNCONSTRAINED_MAX}

\* values conforming to FilterValuesSchema (defaults already applied)
FilterValues ==
  [ industry           : SUBSET IndustryMentions,
    location           : SUBSET LocationMentions,
    funding_stage      : SUBSET FundingStageMentions,
    funding_amount_gte : GteMentions,
    funding_amount_lte : LteMentions,
    lead_investor      : SUBSET LeadInvestorMentions ]

\* aggregations of the corpus, or {} when the aggregation call fails
GetAvailableFilters(ok) ==
  IF ok THEN [ industries     |-> Catalog("industry"),
               locations      |-> Catalog("location"),
               funding_stages |-> Catalog("funding_stage"),
               lead_investors |-> Catalog("lead_investor") ]
        ELSE EmptyObject

\* the classifier's answer to a prompt: a search_type, or a failure
ClassifierAnswers(query, availableFilters) == {"strict", "flexible", "fail"}

\* extractFilterValues: the extractor's answer to a prompt, or a failure;
\* the offered options do not bind the answer
ExtractorAnswers(query, availableFilters) ==
  {[ok |-> FALSE]} \cup { [ok |-> TRUE, values |-> v] : v \in FilterValues }

\* queries the generator of the linear workflow may write, or a failure
GeneratorAnswers(query) ==
  {[ok |-> FALSE]} \cup
  { [ok |-> TRUE, result |-> [elasticsearch_query |-> [bool |-> [filter |-> f]]]] :
      f \in { <<>>,
              <<TermsClause("industry", {"fintech"})>>,
              <<TermsClause("location", {"SF"}),
                RangeClause(RangeBounds(TRUE, 5000000, TRUE, 15000000))>> } }

\* JSON.stringify / JSON.parse of an object without undefined members
JsonStringify(obj) == [json |-> obj]
JsonParse(text) == text.json

(***************************************************************************)
(* The workflow state and the history of one invocation.                   *)
(***************************************************************************)
VARIABLES
  variant,        \* "branching" (main.ts) or "linear" (part_001)
  zeroIsTruthy,   \* the template engine's treatment of 0 in a section test
  semanticRanking,\* the order in which the semantic retriever ranks the corpus
  pc,             \* the node to run next, "end", or "crashed" (exception left the workflow)
  state,          \* the channels of VCState written so far
  classifyFailed, \* history: the strategy classification call failed
  extractFailed,  \* history: the extraction / query generation call failed
  extracted,      \* history: the values the extractor answered, {} if none
  storeCalls,     \* history: the store calls of the executor, with their outcome
  sent,           \* history: the query the executor submitted to the store
  visited,        \* history: the nodes run, in order
  inv             \* the invocations of the compiled graph run side by side:
                  \* for each its next node, its channels and the external
                  \* responses its nodes received

vars == <<variant, zeroIsTruthy, semanticRanking, pc, state, classifyFailed,
          extractFailed, extracted, storeCalls, sent, visited, inv>>

\* what no node of the single invocation writes
env == <<variant, zeroIsTruthy, semanticRanking, inv>>

\* the channels and history of the single invocation
single == <<pc, state, classifyFailed, extractFailed, extracted, storeCalls,
            sent, visited>>

NoQuery == [kind |-> "none"]

Init ==
  /\ variant \in {"branching", "linear"}
  /\ zeroIsTruthy \in BOOLEAN
  /\ semanticRanking \in SemanticRankings
  /\ pc = IF variant = "branching" THEN "decideStrategy" ELSE "queryProcessor"
  /\ \E q \in Inputs : state = [input |-> q]
  /\ classifyFailed = FALSE
  /\ extractFailed = FALSE
  /\ extracted = EmptyObject
  /\ storeCalls = <<>>
  /\ sent = NoQuery
  /\ visited = <<>>
  /\ inv = <<>>

(***************************************************************************)
(* Node 1: decideSearchStrategy, and the conditional edge after it.        *)
(***************************************************************************)
\* the node's update: the classifier's search_type, "structured" on failure
DecideSearchStrategy(st, answer) ==
  IF answer = "fail" THEN [searchStrategy |-> "structured"]
                     ELSE [searchStrategy |-> answer]

\* addConditionalEdges: the strategy value looked up in the path map; a value
\* the map does not hold has no destination and the run throws
RouteAfterDecide(st) ==
  IF st.searchStrategy = "strict" THEN "prepareStrictParams"
  ELSE IF st.searchStrategy = "flexible" THEN "prepareFlexibleParams"
  ELSE "crashed"

DecideStrategy ==
  /\ pc = "decideStrategy"
  /\ \E catalogOk \in BOOLEAN :
       \E answer \in ClassifierAnswers(state.input, GetAvailableFilters(catalogOk)) :
         /\ state' = Merge(DecideSearchStrategy(state, answer), state)
         /\ classifyFailed' = (answer = "fail")
  /\ pc' = RouteAfterDecide(state')
  /\ visited' = Append(visited, "decideStrategy")
  /\ UNCHANGED <<env, extractFailed, extracted, storeCalls, sent>>

(***************************************************************************)
(* Node 2A: prepareStrictParams.                                           *)
(***************************************************************************)
PrepareStrictParams(st, answer) ==
  IF answer.ok
    THEN [searchParams |->
           [ query_text         |-> st.input,
             industry           |-> answer.values.industry,
             location           |-> answer.values.location,
             funding_stage      |-> answer.values.funding_stage,
             funding_amount_gte |-> OrNum(answer.values.funding_amount_gte,
                                          UNCONSTRAINED_MIN),
             funding_amount_lte |-> OrNum(answer.values.funding_amount_lte,
                                          UNCONSTRAINED_MAX),
             lead_investor      |-> answer.values.lead_investor,
             template_id        |-> STRICT_SEARCH_TEMPLATE_ID,
             search_type        |-> "strict_template_rrf" ]]
    ELSE [searchParams |-> EmptyObject]

PrepareStrict ==
  /\ pc = "prepareStrictParams"
  /\ \E catalogOk \in BOOLEAN :
       \E answer \in ExtractorAnswers(state.input, GetAvailableFilters(catalogOk)) :
         /\ state' = Merge(PrepareStrictParams(state, answer), state)
         /\ extractFailed' = ~answer.ok
         /\ extracted' = IF answer.ok THEN answer.values ELSE EmptyObject
  /\ pc' = "executeSearch"
  /\ visited' = Append(visited, "prepareStrictParams")
  /\ UNCHANGED <<env, classifyFailed, storeCalls, sent>>

(***************************************************************************)
(* Node 2B: prepareFlexibleParams.                                         *)
(***************************************************************************)
\* a terms clause for a field whose extracted list is not empty
ShouldTerms(values, field) ==
  IF Cardinality(values[field]) > 0
    THEN <<TermsClause(field, values[field])>> ELSE <<>>

\* values.funding_amount_gte && values.funding_amount_gte > 0
GteGiven(values) ==
  TruthyNum(values.funding_amount_gte)
    /\ values.funding_amount_gte > UNCONSTRAINED_MIN

\* values.funding_amount_lte && values.funding_amount_lte < 100000000
LteGiven(values) ==
  TruthyNum(values.funding_amount_lte)
    /\ values.funding_amount_lte < UNCONSTRAINED_MAX

ShouldRange(values) ==
  IF GteGiven(values) \/ LteGiven(values)
    THEN <<RangeClause(RangeBounds(GteGiven(values), values.funding_amount_gte,
                                   LteGiven(values), values.funding_amount_lte))>>
    ELSE <<>>

ShouldClauses(values) ==
  ShouldTerms(values, "industry") \o ShouldTerms(values, "funding_stage")
    \o ShouldTerms(values, "location") \o ShouldTerms(values, "lead_investor")
    \o ShouldRange(values)

\* as DynamicQuery, but with the structured clauses as hard filters
DynamicQueryFilters(input, values) ==
  [ size  |-> TOP_K,
    query |-> [bool |->
      [ must   |-> <<[semantic |-> [field |-> "semantic_field", query |-> input]]>>,
        should |-> <<>>,
        filter |-> ShouldClauses(values),
        minimum_should_match |-> MINIMUM_SHOULD_MATCH ]] ]

\* as DynamicQuery, but with the page size left to the store
DynamicQueryStoreSize(input, values) ==
  [ size  |-> DEFAULT_SIZE,
    query |-> [bool |->
      [ must   |-> <<[semantic |-> [field |-> "semantic_field", query |-> input]]>>,
        should |-> ShouldClauses(values),
        minimum_should_match |-> MINIMUM_SHOULD_MATCH ]] ]

DynamicQuery(input, values) ==
  [ size  |-> TOP_K,
    query |-> [bool |->
      [ must   |-> <<[semantic |-> [field |-> "semantic_field", query |-> input]]>>,
        should |-> ShouldClauses(values),
        minimum_should_match |-> MINIMUM_SHOULD_MATCH ]] ]

\* the node's update; {} when the extraction throws
PrepareFlexibleParams(st, answer) ==
  IF answer.ok
    THEN [searchParams |->
           [ query_text        |-> st.input,
             dynamic_query     |-> DynamicQuery(st.input, answer.values),
             extracted_filters |-> answer.values,
             search_type       |-> "flexible_dynamic_llm" ]]
    ELSE EmptyObject

PrepareFlexible ==
  /\ pc = "prepareFlexibleParams"
  /\ \E catalogOk \in BOOLEAN :
       \E answer \in ExtractorAnswers(state.input, GetAvailableFilters(catalogOk)) :
         /\ state' = Merge(PrepareFlexibleParams(state, answer), state)
         /\ extractFailed' = ~answer.ok
         /\ extracted' = IF answer.ok THEN answer.values ELSE EmptyObject
  /\ pc' = "executeSearch"
  /\ visited' = Append(visited, "prepareFlexibleParams")
  /\ UNCHANGED <<env, classifyFailed, storeCalls, sent>>

(***************************************************************************)
(* Node 3: executeSearch.                                                  *)
(***************************************************************************)
Call(api, ok) == [api |-> api, ok |-> ok]

\* as ExecuteSearchUpdate, but the catch block returns {} as the one of
\* prepareFlexibleParams does
ExecuteSearchUpdateCatchEmpty(ok, hits) ==
  IF ok THEN [results |-> Sources(hits)] ELSE EmptyObject

\* the node's update: the sources of the hits, [] when a store call threw
ExecuteSearchUpdate(ok, hits) ==
  [results |-> IF ok THEN Sources(hits) ELSE <<>>]

\* state.searchParams.search_type is read before the try block: with the
\* channel unset the read throws and the exception leaves the node
ExecuteSearchThrows ==
  /\ pc = "executeSearch"
  /\ ~Has(state, "searchParams")
  /\ pc' = "crashed"
  /\ visited' = Append(visited, "executeSearch")
  /\ UNCHANGED <<env, state, classifyFailed, extractFailed, extracted,
                 storeCalls, sent>>

\* if (searchParams.dynamic_query): the query built in code, searched directly
ExecuteDynamic ==
  /\ pc = "executeSearch"
  /\ Has(state, "searchParams")
  /\ Has(state.searchParams, "dynamic_query")
  /\ \E searchOk \in BOOLEAN :
       /\ storeCalls' = <<Call("search", searchOk)>>
       /\ state' = Merge(
            ExecuteSearchUpdate(searchOk,
                                BoolSearch(state.searchParams.dynamic_query,
                                           semanticRanking)),
            state)
  /\ sent' = [kind |-> "dynamic", body |-> state.searchParams.dynamic_query]
  /\ pc' = "visualizeResults"
  /\ visited' = Append(visited, "executeSearch")
  /\ UNCHANGED <<env, classifyFailed, extractFailed, extracted>>

\* the store renders the template only when an id names it and it is reachable,
\* and rejects a rendering that is not well formed
RenderSucceeds(searchParams, storeUp, zeroTruthy) ==
  /\ storeUp
  /\ Has(searchParams, "template_id")
  /\ WellFormedArray(RenderFilterArray(searchParams, zeroTruthy))

\* else branch: renderSearchTemplate, then searchTemplate
ExecuteTemplate ==
  /\ pc = "executeSearch"
  /\ Has(state, "searchParams")
  /\ ~Has(state.searchParams, "dynamic_query")
  /\ \E renderUp \in BOOLEAN, searchOk \in BOOLEAN :
       LET sp == state.searchParams
           rendered == RenderSucceeds(sp, renderUp, zeroIsTruthy)
       IN  /\ storeCalls' =
                IF rendered
                  THEN <<Call("renderSearchTemplate", TRUE),
                         Call("searchTemplate", searchOk)>>
                  ELSE <<Call("renderSearchTemplate", FALSE)>>
           /\ sent' =
                IF Has(sp, "template_id")
                  THEN [kind |-> "template", body |-> RenderTemplate(sp, zeroIsTruthy)]
                  ELSE NoQuery
           /\ state' = Merge(
                ExecuteSearchUpdate(rendered /\ searchOk,
                                    RrfSearch(RenderTemplate(sp, zeroIsTruthy),
                                              semanticRanking)),
                state)
  /\ pc' = "visualizeResults"
  /\ visited' = Append(visited, "executeSearch")
  /\ UNCHANGED <<env, classifyFailed, extractFailed, extracted>>

(***************************************************************************)
(* Node 4: visualizeResults (resultFormatter in the linear workflow).      *)
(***************************************************************************)
\* "Found <n> startup(s) matching your criteria" and one entry per startup
FormatResults(results) ==
  [ found  |-> Len(results),
    plural |-> Len(results) > 1,
    items  |-> results ]

VisualizeResultsUpdate(st) ==
  [final |-> FormatResults(IF Has(st, "results") THEN st.results ELSE <<>>)]

VisualizeResults ==
  /\ pc = "visualizeResults"
  /\ state' = Merge(VisualizeResultsUpdate(state), state)
  /\ pc' = "end"
  /\ visited' = Append(visited, "visualizeResults")
  /\ UNCHANGED <<env, classifyFailed, extractFailed, extracted,
                 storeCalls, sent>>

(***************************************************************************)
(* The linear workflow: queryProcessor, searchProcessor, resultFormatter.  *)
(***************************************************************************)
\* the node's update: the generated query as text, a semantic_query object
\* when the generation throws
QueryProcessorUpdate(st, answer) ==
  IF answer.ok
    THEN [structuredQuery |-> JsonStringify(answer.result)]
    ELSE [structuredQuery |-> JsonStringify([semantic_query |-> st.input])]

\* esClient.indices.getMapping is awaited before the try block: its failure
\* leaves the node as an exception
QueryProcessor ==
  /\ pc = "queryProcessor"
  /\ \E mappingOk \in BOOLEAN :
       IF mappingOk
         THEN \E answer \in GeneratorAnswers(state.input) :
                /\ state' = Merge(QueryProcessorUpdate(state, answer), state)
                /\ extractFailed' = ~answer.ok
                /\ pc' = "searchProcessor"
         ELSE /\ pc' = "crashed"
              /\ UNCHANGED <<state, extractFailed>>
  /\ UNCHANGED extracted
  /\ visited' = Append(visited, "queryProcessor")
  /\ UNCHANGED <<env, classifyFailed, storeCalls, sent>>

\* the node's update: the sources of the hits, [] when the search threw
SearchProcessorUpdate(ok, hits) ==
  [results |-> IF ok THEN Sources(hits) ELSE <<>>]

SearchProcessor ==
  /\ pc = "searchProcessor"
  /\ LET parsedQuery == JsonParse(state.structuredQuery)
     IN  /\ sent' = [kind |-> "direct", body |-> parsedQuery]
         /\ \E searchOk \in BOOLEAN :
              /\ storeCalls' = <<Call("search", searchOk)>>
              /\ state' = Merge(
                   SearchProcessorUpdate(searchOk, DirectSearch(parsedQuery)),
                   state)
  /\ pc' = "resultFormatter"
  /\ visited' = Append(visited, "searchProcessor")
  /\ UNCHANGED <<env, classifyFailed, extractFailed, extracted>>

ResultFormatter ==
  /\ pc = "resultFormatter"
  /\ state' = Merge(VisualizeResultsUpdate(state), state)
  /\ pc' = "end"
  /\ visited' = Append(visited, "resultFormatter")
  /\ UNCHANGED <<env, classifyFailed, extractFailed, extracted,
                 storeCalls, sent>>

(***************************************************************************)
(* The specification.                                                      *)
(***************************************************************************)
Next ==
  \/ DecideStrategy
  \/ PrepareStrict
  \/ PrepareFlexible
  \/ ExecuteSearchThrows
  \/ ExecuteDynamic
  \/ ExecuteTemplate
  \/ VisualizeResults
  \/ QueryProcessor
  \/ SearchProcessor
  \/ ResultFormatter

Spec == Init /\ [][Next]_vars

(***************************************************************************)
(* Two invocations of the branching workflow, interleaved node by node.    *)
(* app.invoke creates the channels of VCState anew for each call; llm and  *)
(* the store client are the only objects both calls use, and the nodes     *)
(* only call them.                                                         *)
(***************************************************************************)
Invocations == {1, 2}

\* app.invoke({ input }): channels holding the input only, no node run yet
Invoke(query) ==
  [pc |-> "decideStrategy", state |-> [input |-> query], responses |-> <<>>]

\* the extractor's answers followed in the interleaved runs: a failure, or one
\* lead investor with or without an industry
PairFilterValues ==
  { v \in FilterValues :
      /\ v.industry \subseteq {"fintech"}
      /\ v.location = {}
      /\ v.funding_stage = {}
      /\ v.funding_amount_gte = UNCONSTRAINED_MIN
      /\ v.funding_amount_lte = UNCONSTRAINED_MAX
      /\ Cardinality(v.lead_investor) = 1 }

PairExtractorAnswers(query, availableFilters) ==
  { a \in ExtractorAnswers(query, availableFilters) :
      a.ok => a.values \in PairFilterValues }

\* as PairWrite, but with the channels held once for the module, so that a
\* node's update lands in the state of every invocation
PairWriteShared(iv, i, update, next, response) ==
  [ j \in DOMAIN iv |->
      IF j = i
        THEN [ pc        |-> next,
               state     |-> Merge(update, iv[i].state),
               responses |-> Append(iv[i].responses, response) ]
        ELSE [ iv[j] EXCEPT !.state = Merge(update, @) ] ]

\* a node of invocation i returns: its update is merged into the channels of
\* that invocation, which moves to the next node
PairWrite(iv, i, update, next, response) ==
  [ iv EXCEPT ![i] = [ pc        |-> next,
                       state     |-> Merge(update, iv[i].state),
                       responses |-> Append(iv[i].responses, response) ] ]

\* the update of the preparation node the strategy routes to
PrepareParams(st, answer) ==
  IF st.searchStrategy = "strict" THEN PrepareStrictParams(st, answer)
                                  ELSE PrepareFlexibleParams(st, answer)

\* the update of executeSearch on channels holding searchParams, given the
\* outcome of the store calls
ExecuteSearchOf(st, response) ==
  IF Has(st.searchParams, "dynamic_query")
    THEN ExecuteSearchUpdate(response.searchOk,
                             BoolSearch(st.searchParams.dynamic_query,
                                        semanticRanking))
    ELSE ExecuteSearchUpdate(
           RenderSucceeds(st.searchParams, response.renderUp, zeroIsTruthy)
             /\ response.searchOk,
           RrfSearch(RenderTemplate(st.searchParams, zeroIsTruthy),
                     semanticRanking))

PairDecideStrategy(i) ==
  /\ inv[i].pc = "decideStrategy"
  /\ \E catalogOk \in BOOLEAN :
       \E answer \in ClassifierAnswers(inv[i].state.input,
                                       GetAvailableFilters(catalogOk)) :
         LET update == DecideSearchStrategy(inv[i].state, answer)
         IN  inv' = PairWrite(inv, i, update,
                              RouteAfterDecide(Merge(update, inv[i].state)),
                              answer)
  /\ UNCHANGED <<variant, zeroIsTruthy, semanticRanking, single>>

PairPrepare(i) ==
  /\ inv[i].pc \in {"prepareStrictParams", "prepareFlexibleParams"}
  /\ \E catalogOk \in BOOLEAN :
       \E answer \in PairExtractorAnswers(inv[i].state.input,
                                          GetAvailableFilters(catalogOk)) :
         inv' = PairWrite(inv, i,
                          IF inv[i].pc = "prepareStrictParams"
                            THEN PrepareStrictParams(inv[i].state, answer)
                            ELSE PrepareFlexibleParams(inv[i].state, answer),
                          "executeSearch", answer)
  /\ UNCHANGED <<variant, zeroIsTruthy, semanticRanking, single>>

PairExecuteSearch(i) ==
  /\ inv[i].pc = "executeSearch"
  /\ IF Has(inv[i].state, "searchParams")
       THEN \E renderUp \in BOOLEAN, searchOk \in BOOLEAN :
              LET response == [renderUp |-> renderUp, searchOk |-> searchOk]
              IN  inv' = PairWrite(inv, i,
                                   ExecuteSearchOf(inv[i].state, response),
                                   "visualizeResults", response)
       ELSE inv' = [inv EXCEPT ![i].pc = "crashed"]
  /\ UNCHANGED <<variant, zeroIsTruthy, semanticRanking, single>>

PairVisualizeResults(i) ==
  /\ inv[i].pc = "visualizeResults"
  /\ inv' = PairWrite(inv, i, VisualizeResultsUpdate(inv[i].state), "end",
                      "none")
  /\ UNCHANGED <<variant, zeroIsTruthy, semanticRanking, single>>

\* two calls of app.invoke on one compiled graph, no node of either run yet;
\* the single invocation of Spec is not started
InitPair ==
  /\ variant = "branching"
  /\ zeroIsTruthy \in BOOLEAN
  /\ semanticRanking \in SemanticRankings
  /\ \E queries \in [Invocations -> Inputs] :
       /\ inv = [i \in Invocations |-> Invoke(queries[i])]
       /\ state = [input |-> queries[1]]
  /\ pc = "decideStrategy"
  /\ classifyFailed = FALSE
  /\ extractFailed = FALSE
  /\ extracted = EmptyObject
  /\ storeCalls = <<>>
  /\ sent = NoQuery
  /\ visited = <<>>

NextPair ==
  \/ \E i \in Invocations : PairDecideStrategy(i)
  \/ \E i \in Invocations : PairPrepare(i)
  \/ \E i \in Invocations : PairExecuteSearch(i)
  \/ \E i \in Invocations : PairVisualizeResults(i)

SpecPair == InitPair /\ [][NextPair]_vars

(***************************************************************************)
(* Vocabulary of the properties.                                           *)
(***************************************************************************)
CategoricalFieldSet == { CategoricalFields[i] : i \in 1..Len(CategoricalFields) }

\* the executor has run and handed over to the renderer
Executed == pc \in {"visualizeResults", "resultFormatter", "end"}

\* the structured clauses of the submitted query
SentClauses ==
  IF sent.kind = "template" THEN ClausesOf(FilterTokens(sent.body))
  ELSE IF sent.kind = "dynamic" THEN sent.body.query.bool.should
  ELSE <<>>

TermsFieldsOf(clauses) ==
  { clauses[i].field : i \in { j \in 1..Len(clauses) : clauses[j].type = "terms" } }

HasRangeClause(clauses) ==
  \E i \in 1..Len(clauses) : clauses[i].type = "range"

\* no field of the extracted values carries a constraint
Unconstrained(values) ==
  /\ \A f \in CategoricalFieldSet : values[f] = {}
  /\ values.funding_amount_gte = UNCONSTRAINED_MIN
  /\ values.funding_amount_lte = UNCONSTRAINED_MAX

\* the submitted query is the semantic match and nothing else
SemanticOnlyShape(q) ==
  IF q.kind = "template"
    THEN Len(q.body.retriever.rrf.retrievers) = 1
  ELSE IF q.kind = "dynamic"
    THEN /\ ~Has(q.body.query.bool, "should")
         /\ ~Has(q.body.query.bool, "minimum_should_match")
  ELSE FALSE

\* the submitted query holds a semantic match on the text
HasSemanticOn(q, text) ==
  IF q.kind = "template"
    THEN q.body.retriever.rrf.retrievers[1].standard.query.semantic.query = text
  ELSE IF q.kind = "dynamic"
    THEN \E i \in 1..Len(q.body.query.bool.must) :
           q.body.query.bool.must[i].semantic.query = text
  ELSE FALSE

\* the last store call of the executor failed: no hits came back
StoreFailed == storeCalls # <<>> /\ ~storeCalls[Len(storeCalls)].ok

StoreAnswered == storeCalls # <<>> /\ storeCalls[Len(storeCalls)].ok

(***************************************************************************)
(* Properties.                                                             *)
(***************************************************************************)
\* C1: whatever fails among the external calls, an invocation never leaves
\* the workflow by an exception, and when it ends it holds a result list.
C1_AlwaysReturnsResultList ==
  /\ pc # "crashed"
  /\ pc = "end" => Has(state, "results")

\* C2: after a failed classification the strategy is strict and the workflow
\* continues through prepareStrictParams.
C2_ClassifyFailureRoutesStrict ==
  classifyFailed =>
    /\ state.searchStrategy = "strict"
    /\ \/ pc = "prepareStrictParams"
       \/ Len(visited) >= 2 /\ visited[2] = "prepareStrictParams"

\* C3: on the strict path every returned document satisfies every filter
\* clause of the submitted query.
C3_StrictResultsPassFilters ==
  (sent.kind = "template" /\ Has(state, "results")) =>
    \A i \in 1..Len(state.results) : MatchesAll(state.results[i], SentClauses)

\* C4: on the flexible path minimum_should_match never exceeds the number of
\* should clauses emitted.
C4_ThresholdWithinShouldCount ==
  sent.kind = "dynamic" =>
    sent.body.query.bool.minimum_should_match <= Len(sent.body.query.bool.should)

\* C5: on both paths a categorical field whose extracted value set is empty
\* has no terms clause in the submitted query, and no terms clause is empty.
C5_NoTermsForEmptyValueSet ==
  sent.kind \in {"template", "dynamic"} =>
    /\ \A f \in CategoricalFieldSet :
         extracted[f] = {} => f \notin TermsFieldsOf(SentClauses)
    /\ \A i \in 1..Len(SentClauses) :
         SentClauses[i].type = "terms" => SentClauses[i].values # {}

\* C5 witness: a strict query with no industry extracted and a location clause
C5_Witness ==
  /\ sent.kind = "template"
  /\ extracted.industry = {}
  /\ extracted.location # {}
  /\ "location" \in TermsFieldsOf(SentClauses)

\* C6: on the strict path every field with a non-default extracted constraint
\* is a filter clause of a query the store accepts.
C6_StrictNonDefaultFieldsAreHardFilters ==
  sent.kind = "template" =>
    /\ WellFormedArray(FilterTokens(sent.body))
    /\ \A f \in CategoricalFieldSet :
         extracted[f] # {} => f \in TermsFieldsOf(SentClauses)
    /\ (extracted.funding_amount_gte > UNCONSTRAINED_MIN
          \/ extracted.funding_amount_lte < UNCONSTRAINED_MAX)
         => HasRangeClause(SentClauses)

\* C7: on both paths a range clause has gte only if the extracted lower bound
\* is not 0 and lte only if the extracted upper bound is not 100000000; with
\* both bounds at the extent there is no range clause.
C7_RangeCarriesOnlyGivenBounds ==
  sent.kind \in {"template", "dynamic"} =>
    /\ \A i \in 1..Len(SentClauses) :
         SentClauses[i].type = "range" =>
           /\ Has(SentClauses[i].bounds, "gte")
                => extracted.funding_amount_gte # UNCONSTRAINED_MIN
           /\ Has(SentClauses[i].bounds, "lte")
                => extracted.funding_amount_lte # UNCONSTRAINED_MAX
    /\ (extracted.funding_amount_gte = UNCONSTRAINED_MIN
          /\ extracted.funding_amount_lte = UNCONSTRAINED_MAX)
         => ~HasRangeClause(SentClauses)

\* C8: with no constraint extracted the submitted query is the semantic match
\* alone on both paths, and its result is that of the semantic query.
C8_UnconstrainedCompilesToSemanticOnly ==
  (sent.kind \in {"template", "dynamic"} /\ Unconstrained(extracted)) =>
    /\ SemanticOnlyShape(sent)
    /\ StoreAnswered => state.results = Sources(SemanticSearch(semanticRanking))

\* C9: after a failed extraction the pipeline goes on, submits a query with
\* the semantic match on the input text, and returns the semantic result.
C9_ExtractionFailureFailsOpen ==
  extractFailed =>
    /\ pc # "crashed"
    /\ Executed =>
         /\ HasSemanticOn(sent, state.input)
         /\ StoreAnswered => state.results = Sources(SemanticSearch(semanticRanking))

\* C10: with search parameters present no exception leaves the executor, and
\* when its store calls fail the result list is empty, the workflow is at the
\* renderer or past it, and the rendered text reports zero results.
C10_StoreFailureYieldsEmptyResult ==
  /\ (Has(state, "searchParams") \/ variant = "linear")
       => (storeCalls # <<>> => pc # "crashed")
  /\ (pc # "executeSearch" /\ pc # "searchProcessor"
        /\ (Has(state, "searchParams") \/ Has(state, "structuredQuery")))
       => Executed
  /\ StoreFailed =>
       /\ Executed
       /\ Has(state, "results")
       /\ state.results = <<>>
       /\ pc = "end" => state.final.found = 0 /\ state.final.items = <<>>

\* C10 witness: the strict template search failed and the run ended
C10_Witness ==
  /\ pc = "end"
  /\ StoreFailed
  /\ Has(state, "searchParams")
  /\ Has(state.searchParams, "template_id")
  /\ state.final.found = 0

\* C11: in both workflows the result list handed to the renderer holds at
\* most 5 documents.
C11_AtMostFiveResults ==
  (Executed /\ Has(state, "results")) => Len(state.results) <= 5

\* C11 as amended: in the branching workflow, on every path, the result list
\* handed to the renderer holds at most 5 documents.
C11_BranchingAtMostFiveResults ==
  (variant = "branching" /\ Executed /\ Has(state, "results"))
    => Len(state.results) <= 5

\* C11 witness: more than 5 documents in the index, 5 of them returned
C11_Witness ==
  /\ variant = "branching"
  /\ pc = "end"
  /\ NumDocs > 5
  /\ Has(state, "results")
  /\ Len(state.results) = 5

\* C12: on both paths every value of a terms clause of the submitted query is
\* in the value catalog of its field.
C12_TermsValuesAreCatalogValues ==
  sent.kind \in {"template", "dynamic"} =>
    \A i \in 1..Len(SentClauses) :
      SentClauses[i].type = "terms"
        => SentClauses[i].values \subseteq Catalog(SentClauses[i].field)

\* C13: on both paths extracted bounds with the lower above the upper give no
\* range clause, and the semantic match is still submitted.
C13_InvertedRangeIsDropped ==
  (sent.kind \in {"template", "dynamic"}
     /\ extracted.funding_amount_gte > extracted.funding_amount_lte) =>
    /\ ~HasRangeClause(SentClauses)
    /\ HasSemanticOn(sent, state.input)

\* C17: whatever parameters the strict template is rendered with, its filter
\* array is well formed: single commas between clauses, none after the last.
C17_RenderedFilterArrayIsWellFormed ==
  sent.kind = "template" => WellFormedArray(FilterTokens(sent.body))

\* the preparation node the strategy value selects
PreparationFor(strategy) ==
  IF strategy = "strict" THEN "prepareStrictParams" ELSE "prepareFlexibleParams"

\* the nodes of a run of the branching workflow, in order
NodeOrder(strategy) ==
  <<"decideStrategy", PreparationFor(strategy), "executeSearch", "visualizeResults">>

\* C16: a run of the branching workflow goes through decideStrategy, the one
\* preparation node its strategy value selects, executeSearch and
\* visualizeResults, in this order and each once, and then ends: the nodes run
\* so far are a prefix of this order and the next node is the one after them.
C16_NodesRunInGraphOrder ==
  (variant = "branching" /\ visited # <<>>) =>
    /\ state.searchStrategy \in {"strict", "flexible"}
    /\ Len(visited) <= 4
    /\ \A i \in 1..Len(visited) : visited[i] = NodeOrder(state.searchStrategy)[i]
    /\ pc = IF Len(visited) = 4 THEN "end"
            ELSE NodeOrder(state.searchStrategy)[Len(visited) + 1]

\* executeSearch has run after the preparation node returned search parameters
ExecutedAfter(node) ==
  /\ variant = "branching"
  /\ Len(visited) >= 3
  /\ visited[2] = node
  /\ visited[3] = "executeSearch"
  /\ ~extractFailed

StoreApis == { storeCalls[i].api : i \in 1..Len(storeCalls) }

SemanticList == Window(semanticRanking, sent.body.retriever.rrf.rank_window_size)

StructuredList ==
  Window(FilterList(SentClauses), sent.body.retriever.rrf.rank_window_size)

FusedList ==
  RrfFuse(SemanticList, StructuredList, sent.body.retriever.rrf.rank_constant)

FusedScore(d) ==
  RrfScore(SemanticList, StructuredList, d, sent.body.retriever.rrf.rank_constant)

InBothLists == Members(SemanticList) \cap Members(StructuredList)

InOneList ==
  (Members(SemanticList) \cup Members(StructuredList)) \ InBothLists

\* rank of a document held by exactly one of the lists, in that list
RankInItsList(e) ==
  IF e \in Members(SemanticList) THEN RankIn(SemanticList, e)
                                 ELSE RankIn(StructuredList, e)

FracEq(a, b) == a[1] * b[2] = b[1] * a[2]

\* e is in one list only, at the better of the two ranks of d
AtBestRankOf(e, d) ==
  RankInItsList(e) = Min(RankIn(SemanticList, d), RankIn(StructuredList, d))

\* C14: in the fusion of the semantic and the structured list a document at
\* ranks r1 and r2 scores 1/(20+r1) + 1/(20+r2), strictly more than a document
\* that is in one list only at rank min(r1, r2), and is ordered before it.
C14_TwoListsOutrankOneList ==
  (sent.kind = "template" /\ StoreAnswered) =>
    \A d \in InBothLists :
      /\ FracEq(FusedScore(d),
                <<(20 + RankIn(SemanticList, d)) + (20 + RankIn(StructuredList, d)),
                  (20 + RankIn(SemanticList, d)) * (20 + RankIn(StructuredList, d))>>)
      /\ \A e \in InOneList :
           AtBestRankOf(e, d) =>
             /\ FracGT(FusedScore(d), FusedScore(e))
             /\ RankIn(FusedList, d) < RankIn(FusedList, e)

\* C14 witness: the store fused two lists, one document is in both at
\* different ranks and another in one only at the better of these ranks
C14_Witness ==
  /\ sent.kind = "template"
  /\ StoreAnswered
  /\ \E d \in InBothLists :
       /\ RankIn(SemanticList, d) # RankIn(StructuredList, d)
       /\ \E e \in InOneList : AtBestRankOf(e, d)

(***************************************************************************)
(* C15: two interleaved invocations share no mutable state. Every channel  *)
(* of an invocation holds what its own nodes computed from its own input   *)
(* and from the responses the classifier, the extractor and the store gave *)
(* to it, and a step changes the channels, the position and the recorded   *)
(* responses of one invocation only.                                       *)
(***************************************************************************)
\* the channels of invocation i are those its own nodes wrote
OwnChannels(i) ==
  LET st == inv[i].state
      rs == inv[i].responses
  IN  /\ Has(st, "input")
      /\ Has(st, "searchStrategy") =>
           /\ Len(rs) >= 1
           /\ st.searchStrategy = DecideSearchStrategy(st, rs[1]).searchStrategy
      /\ Has(st, "searchParams") =>
           /\ Len(rs) >= 2
           /\ Has(st, "searchStrategy")
           /\ Has(PrepareParams(st, rs[2]), "searchParams")
           /\ st.searchParams = PrepareParams(st, rs[2]).searchParams
      /\ Has(st, "results") =>
           /\ Len(rs) >= 3
           /\ Has(st, "searchParams")
           /\ st.results = ExecuteSearchOf(st, rs[3]).results
      /\ Has(st, "final") =>
           /\ Len(rs) >= 4
           /\ st.final = VisualizeResultsUpdate(st).final

\* a step is a step of one invocation
OneInvocationSteps ==
  \A i \in DOMAIN inv :
    inv'[i] # inv[i] => \A j \in DOMAIN inv \ {i} : inv'[j] = inv[j]

C15_InvocationsShareNoState ==
  /\ [](\A i \in DOMAIN inv : OwnChannels(i))
  /\ [][OneInvocationSteps]_vars

\* both invocations are between their nodes, on different routes, one of them
\* with results already written
C15_Witness ==
  /\ DOMAIN inv = Invocations
  /\ inv[1].pc = "visualizeResults"
  /\ inv[2].pc = "executeSearch"
  /\ inv[1].state.searchStrategy # inv[2].state.searchStrategy
  /\ inv[1].state.input # inv[2].state.input
  /\ Len(inv[1].state.results) > 0

====
